---- MODULE Spec2Model ----
(***************************************************************************)
(* Transcription service: app/main.py (HTTP front door),                   *)
(* app/worker/transcribe.py (TranscriptionService: model caches, the job   *)
(* pipeline, the callback dispatcher) and app/storage/s3_adapter.py        *)
(* (temporary audio files and artifact uploads).                           *)
(*                                                                         *)
(* Scheduling.  The coroutines of all requests run on one event loop, so   *)
(* the code between two awaits is atomic; the functions handed to          *)
(* run_in_executor (model loads, transcribe, align, diarize) run on pool   *)
(* threads and interleave freely with each other and with the loop.  One   *)
(* action below is one executor call, or one event-loop segment that       *)
(* touches shared state, together with the loop code that follows it up    *)
(* to the next await.                                                      *)
(*                                                                         *)
(* Optional values (Python None / a missing result) are sequences of       *)
(* length <= 1: None is <<>>, a present value v is <<v>>.  A dict key that *)
(* may be missing ("confidence", "speaker", "language") is a record field  *)
(* that may be missing from DOMAIN.                                        *)
(***************************************************************************)
EXTENDS Integers, Sequences, FiniteSets, TLC

\* ------------------------------------------------------------------ bounds

NumRequests   == 1          \* requests received under Spec (all inputs drawn)
NumConcurrent == 2          \* requests received under SpecConcurrent
NumJobIds     == 2          \* distinct job ids the callers use
MaxSegments   == 3          \* segments of a recognition output under SpecAggregate
MaxRetriesBound == 4        \* largest MAX_RETRIES the environment sets under Spec

JobIds == 1..NumJobIds

\* ------------------------------------------------------- program constants

DefaultMaxRetries == 3      \* MAX_RETRIES when the environment does not set it

ModelNames   == {"base", "small"}
ComputeTypes == {"float16"}
Languages    == {"en", "auto", ""}

None == <<>>
Some(v) == <<v>>

\* ------------------------------------------------------------- variables

VARIABLES
  svc,                  \* lifespan of the app: "created", "running", "crashed", "stopped"
  hf_token,             \* self.hf_token is set (HUGGINGFACE_TOKEN)
  max_retries,          \* self.max_retries (MAX_RETRIES)
  models,               \* self.models: cache key -> optional handle
  alignment_models,     \* self.alignment_models: language -> optional handle
  diarization_pipeline, \* self.diarization_pipeline: optional handle
  built,                \* constructor calls so far, per model key
  temp_files,           \* audio_* files on local disk, by the request that made them
  bucket,               \* objects put to S3: key -> optional writer
  req                   \* per request: the request, the coroutine's locals, its outputs

vars == <<svc, hf_token, max_retries, models, alignment_models, diarization_pipeline,
          built, temp_files, bucket, req>>

\* ------------------------------------------------------------ model keys

WhisperKey(model_name, compute_type) == <<"whisper", model_name, compute_type>>
AlignKey(language) == <<"align", language>>
DiarKey == <<"diarization">>

WhisperKeys == {WhisperKey(m, c) : m \in ModelNames, c \in ComputeTypes}
AlignLanguages == {"en"}
AllKeys == WhisperKeys \cup {AlignKey(l) : l \in AlignLanguages} \cup {DiarKey}

\* A handle is the key it was built for and the number of the constructor call.
Handle(key, n) == [key |-> key, n |-> n]

\* ------------------------------------------------- segments and results

Num(opt) == opt[1]

\* A segment dict of whisperx: "start", "end" (None when null), "text" (a
\* sequence of characters), and the optional keys "confidence", "speaker",
\* "words".
Seg(start, end, text) == [start |-> Some(start), end |-> Some(end), text |-> text]

WithConfidence(seg, c) ==
  [k \in DOMAIN seg \cup {"confidence"} |-> IF k = "confidence" THEN c ELSE seg[k]]

WithSpeaker(seg, s) ==
  [k \in DOMAIN seg \cup {"speaker"} |-> IF k = "speaker" THEN s ELSE seg[k]]

WithWords(seg, w) ==
  [k \in DOMAIN seg \cup {"words"} |-> IF k = "words" THEN w ELSE seg[k]]

\* What model.transcribe may return: {"segments": [...]} with or without a
\* "language" key.
RecognitionOutputs ==
  { [segments |-> << WithConfidence(Seg(0, 1, <<"h", "i">>), 8),
                     Seg(1, 2, <<" ", "y", "o", " ">>),
                     Seg(2, 3, <<>>) >>,
     language |-> "en"],
    [segments |-> << WithConfidence(Seg(0, 2, <<"y", "o">>), 4) >>] }

\* dict.get(key, default) on the result dicts.
GetSegments(result) ==
  IF "segments" \in DOMAIN result THEN result.segments ELSE <<>>

GetWordSegments(result) ==
  IF "word_segments" \in DOMAIN result THEN result.word_segments ELSE <<>>

\* str.strip() on a text: drop the blanks at both ends.
RECURSIVE LStrip(_)
LStrip(t) == IF t # <<>> /\ Head(t) = " " THEN LStrip(Tail(t)) ELSE t

RECURSIVE RStrip(_)
RStrip(t) ==
  IF t # <<>> /\ t[Len(t)] = " " THEN RStrip(SubSeq(t, 1, Len(t) - 1)) ELSE t

Strip(t) == RStrip(LStrip(t))

\* " ".join(texts)
RECURSIVE JoinSpace(_)
JoinSpace(texts) ==
  IF texts = <<>> THEN <<>>
  ELSE IF Len(texts) = 1 THEN texts[1]
  ELSE texts[1] \o <<" ">> \o JoinSpace(Tail(texts))

\* transcribe.py line 246
TranscriptText(result) ==
  JoinSpace([i \in 1..Len(GetSegments(result)) |-> Strip(GetSegments(result)[i].text)])

\* transcribe.py lines 251-252: the mean (as sum over count) of the confidences
\* that are present, None when there is none.
RECURSIVE SumConfidence(_)
SumConfidence(segments) ==
  IF segments = <<>> THEN 0
  ELSE (IF "confidence" \in DOMAIN Head(segments) THEN Head(segments).confidence ELSE 0)
       + SumConfidence(Tail(segments))

\* Mutant of AvgConfidence: the sum is divided by the number of segments.
AvgConfidence_OverAllSegments(segments) ==
  LET n == Cardinality({i \in 1..Len(segments) : "confidence" \in DOMAIN segments[i]})
  IN IF n = 0 THEN None ELSE Some([sum |-> SumConfidence(segments), n |-> Len(segments)])

AvgConfidence(segments) ==
  LET n == Cardinality({i \in 1..Len(segments) : "confidence" \in DOMAIN segments[i]})
  IN IF n = 0 THEN None ELSE Some([sum |-> SumConfidence(segments), n |-> n])

\* whisperx.align on success: the segments with their words, and the flat
\* word list ("word_segments"), one word per segment with a non-blank text.
RECURSIVE WordsOf(_)
WordsOf(segments) ==
  IF segments = <<>> THEN <<>>
  ELSE (IF Strip(Head(segments).text) = <<>> THEN <<>>
        ELSE << [start |-> Head(segments).start, end |-> Head(segments).end,
                 word |-> Strip(Head(segments).text)] >>)
       \o WordsOf(Tail(segments))

AlignOutput(segments) ==
  [segments |-> [i \in 1..Len(segments) |->
                   WithWords(segments[i], WordsOf(<<segments[i]>>))],
   word_segments |-> WordsOf(segments)]

\* whisperx.assign_word_speakers on success: the transcript with a "speaker"
\* key on the segments that overlap a speaker turn.  The labellings drawn:
\* one speaker everywhere; two speakers and the segments from the third on
\* without a label; one speaker and a first segment whose "end" is null.
SetSegments(result, segments) ==
  [k \in DOMAIN result \cup {"segments"} |->
     IF k = "segments" THEN segments ELSE result[k]]

LabelAll(result) ==
  SetSegments(result, [i \in 1..Len(GetSegments(result)) |->
                         WithSpeaker(GetSegments(result)[i], "SPEAKER_00")])

LabelTwo(result) ==
  SetSegments(result, [i \in 1..Len(GetSegments(result)) |->
     IF i = 1 THEN WithSpeaker(GetSegments(result)[i], "SPEAKER_00")
     ELSE IF i = 2 THEN WithSpeaker(GetSegments(result)[i], "SPEAKER_01")
     ELSE GetSegments(result)[i]])

LabelNullEnd(result) ==
  SetSegments(result, [i \in 1..Len(GetSegments(result)) |->
     IF i = 1
     THEN [WithSpeaker(GetSegments(result)[i], "SPEAKER_00") EXCEPT !.end = None]
     ELSE WithSpeaker(GetSegments(result)[i], "SPEAKER_00")])

AssignOutputs(result) == {LabelAll(result), LabelTwo(result), LabelNullEnd(result)}

\* _extract_speaker_info: one summary per speaker label, in order of first
\* appearance.  `end - start` raises TypeError when either is None.
ExtractRaises(segments) ==
  \E i \in 1..Len(segments) :
    /\ "speaker" \in DOMAIN segments[i]
    /\ (segments[i].end = None \/ segments[i].start = None)

RECURSIVE AddSpeaker(_, _)
AddSpeaker(speakers, segment) ==
  IF speakers = <<>>
  THEN << [id |-> segment.speaker,
           total_speech_time |-> Num(segment.end) - Num(segment.start),
           segments_count |-> 1] >>
  ELSE IF Head(speakers).id = segment.speaker
  THEN << [Head(speakers) EXCEPT
             !.total_speech_time = @ + Num(segment.end) - Num(segment.start),
             !.segments_count = @ + 1] >> \o Tail(speakers)
  ELSE << Head(speakers) >> \o AddSpeaker(Tail(speakers), segment)

RECURSIVE ExtractFrom(_, _)
ExtractFrom(speakers, segments) ==
  IF segments = <<>> THEN speakers
  ELSE ExtractFrom(IF "speaker" \in DOMAIN Head(segments)
                   THEN AddSpeaker(speakers, Head(segments))
                   ELSE speakers,
                   Tail(segments))

ExtractSpeakerInfo(segments) == ExtractFrom(<<>>, segments)

\* str(request.job_id), as a sequence of characters.  The ids the callers
\* use are "7", "77", ...: each is a prefix of the next, the closest two keys
\* built by concatenation can get.
JobIdStr(job_id) == [i \in 1..job_id |-> "7"]

\* The keys of the two artifacts: f"transcripts/{job_id_str}.txt" (line 262)
\* and f"timestamps/{job_id_str}.json" (line 275).
\* Mutant of TranscriptKey: one key for every job.
TranscriptKey_Shared(job_id) ==
  <<"t", "r", "a", "n", "s", "c", "r", "i", "p", "t", "s", "/">>
  \o <<"j", "o", "b">> \o <<".", "t", "x", "t">>

TranscriptKey(job_id) ==
  <<"t", "r", "a", "n", "s", "c", "r", "i", "p", "t", "s", "/">>
  \o JobIdStr(job_id) \o <<".", "t", "x", "t">>

TimestampsKey(job_id) ==
  <<"t", "i", "m", "e", "s", "t", "a", "m", "p", "s", "/">>
  \o JobIdStr(job_id) \o <<".", "j", "s", "o", "n">>
ArtifactKeys == {TranscriptKey(j) : j \in JobIds} \cup {TimestampsKey(j) : j \in JobIds}

\* ------------------------------------------------------------ the state

\* A request before POST /transcribe delivers it: the request's fields are
\* set by Submit, the rest are the locals of process_transcription_sync /
\* process_transcription_async / _send_callback and what they hand out.
NewRequest ==
  [ pc               |-> "new",
    status           |-> "PENDING",
    job_id           |-> 1,
    model            |-> "base",
    compute_type     |-> "float16",
    language         |-> "en",          \* request.language
    diarize          |-> FALSE,
    synchronous      |-> FALSE,
    callback_url     |-> FALSE,         \* a callback_url was given
    local_audio_path |-> FALSE,         \* local_audio_path is not None
    model_handle     |-> None,
    align_handle     |-> None,
    diar_handle      |-> None,
    used_language    |-> None,          \* `language` of line 186
    result           |-> None,
    aligned_result   |-> None,
    diarized_result  |-> None,
    speakers         |-> None,
    error            |-> None,          \* the call whose exception ended the pipeline
    caught           |-> {},            \* the calls whose exception was caught and logged
    response         |-> None,          \* the TranscriptionResponse returned
    http             |-> None,          \* the HTTP answer to the submitter
    steps            |-> <<>>,          \* the stages run so far, in order
    attempt          |-> 0,             \* `attempt` of the retry loop
    posts            |-> <<>>,          \* outcome of each POST made
    delays           |-> <<>>,          \* each asyncio.sleep made
    callbacks        |-> 0,             \* calls of _send_callback
    callback_data    |-> None,          \* the TranscriptionCallback built
    posted           |-> <<>>,          \* URL and body of each POST made
    delivery         |-> "none" ]

Init ==
  /\ svc = "created"
  /\ hf_token \in BOOLEAN
  /\ max_retries \in 1..MaxRetriesBound
  /\ models = [k \in WhisperKeys |-> None]
  /\ alignment_models = [l \in AlignLanguages |-> None]
  /\ diarization_pipeline = None
  /\ built = [k \in AllKeys |-> 0]
  /\ temp_files = {}
  /\ bucket = [k \in ArtifactKeys |-> None]
  /\ req = [r \in 1..NumRequests |-> NewRequest]

Step(steps, name) == Append(steps, name)

\* ----------------------------------------------------- lifespan (main.py)

\* lifespan -> TranscriptionService.initialize: load "base" (float16) before
\* the app serves; a failed load ends the start-up.
Initialize ==
  /\ svc = "created"
  /\ LET key == WhisperKey("base", "float16") IN
       /\ built' = [built EXCEPT ![key] = @ + 1]
       /\ \/ /\ models' = [models EXCEPT ![key] = Some(Handle(key, built'[key]))]
             /\ svc' = "running"
          \/ /\ svc' = "crashed"
             /\ UNCHANGED models
  /\ UNCHANGED <<hf_token, max_retries, alignment_models, diarization_pipeline, temp_files, bucket, req>>

\* TranscriptionService.is_ready: len(self.models) > 0.
is_ready == \E key \in WhisperKeys : models[key] # None

\* GET /health: 200 when the service is ready, 503 otherwise.
health_check == IF is_ready THEN 200 ELSE 503

\* Mutant of Cleanup: the caches are left as they are.
Cleanup_KeepsModels ==
  /\ svc = "running"
  /\ \A r \in DOMAIN req : req[r].pc \in {"new", "done"}
  /\ svc' = "stopped"
  /\ UNCHANGED <<hf_token, max_retries, models, alignment_models, diarization_pipeline,
                 built, temp_files, bucket, req>>

\* lifespan after the yield -> TranscriptionService.cleanup: the server has
\* stopped taking requests and those in flight, their background tasks
\* included, have finished; the three caches are cleared.
Cleanup ==
  /\ svc = "running"
  /\ \A r \in DOMAIN req : req[r].pc \in {"new", "done"}
  /\ svc' = "stopped"
  /\ models' = [k \in WhisperKeys |-> None]
  /\ alignment_models' = [l \in AlignLanguages |-> None]
  /\ diarization_pipeline' = None
  /\ UNCHANGED <<hf_token, max_retries, built, temp_files, bucket, req>>

\* ------------------------------------------------- front door (main.py)

\* What follows the return of process_transcription_sync, up to the next
\* await: the synchronous handler answers with the result; the background
\* task goes on to _send_callback when a callback_url was given.
\* Mutant of AfterPipeline: the result of a background task is answered to
\* the submitter as well.
AfterPipeline_AnswersAsync(rec) ==
  IF rec.synchronous \/ ~rec.callback_url
  THEN [rec EXCEPT !.http = Some([code |-> 200, job_id |-> rec.job_id,
                                  status |-> rec.response[1].status]),
                   !.pc = "done"]
  ELSE [rec EXCEPT !.callbacks = @ + 1, !.pc = "callback_build"]

\* Mutant of AfterPipeline: the synchronous handler answers with the
\* processing marker and leaves the result to the callback.
AfterPipeline_AnswersProcessing(rec) ==
  IF rec.synchronous
  THEN [rec EXCEPT !.http = Some([code |-> 200, job_id |-> rec.job_id,
                                  status |-> "PROCESSING"]),
                   !.pc = "done"]
  ELSE IF rec.callback_url
  THEN [rec EXCEPT !.callbacks = @ + 1, !.pc = "callback_build"]
  ELSE [rec EXCEPT !.pc = "done"]

\* Mutant of AfterPipeline: the background task calls _send_callback
\* whether or not the request named a callback URL.
AfterPipeline_AlwaysCallback(rec) ==
  IF rec.synchronous
  THEN [rec EXCEPT !.http = Some([code |-> 200, job_id |-> rec.job_id,
                                  status |-> rec.response[1].status]),
                   !.pc = "done"]
  ELSE [rec EXCEPT !.callbacks = @ + 1, !.pc = "callback_build"]

AfterPipeline(rec) ==
  IF rec.synchronous
  THEN [rec EXCEPT !.http = Some([code |-> 200, job_id |-> rec.job_id,
                                  status |-> rec.response[1].status]),
                   !.pc = "done"]
  ELSE IF rec.callback_url
  THEN [rec EXCEPT !.callbacks = @ + 1, !.pc = "callback_build"]
  ELSE [rec EXCEPT !.pc = "done"]

\* transcribe_audio: an asynchronous request is queued as a background task
\* and acknowledged at once; a synchronous one awaits the pipeline.
\* Mutant of SubmitFrom: the request is queued without being marked as
\* processing.
SubmitFrom_StaysPending(r, bodies) ==
  /\ svc = "running"
  /\ req[r].pc = "new"
  /\ (IF r = 1 THEN TRUE ELSE req[r - 1].pc # "new")
  /\ \E b \in bodies :
       /\ \A j \in 1..(b.job_id - 1) : \E q \in 1..(r - 1) : req[q].job_id = j
       /\ req' = [req EXCEPT ![r] =
                 [@ EXCEPT !.job_id = b.job_id, !.model = b.model,
                           !.compute_type = b.compute_type,
                           !.language = b.language, !.diarize = b.diarize,
                           !.synchronous = b.synchronous,
                           !.callback_url = b.callback_url,
                           !.pc = "fetch"]]
  /\ UNCHANGED <<svc, hf_token, max_retries, models, alignment_models, diarization_pipeline,
                 built, temp_files, bucket>>

RequestBodies ==
  [job_id : JobIds, model : ModelNames, compute_type : ComputeTypes,
   language : Languages, diarize : BOOLEAN, synchronous : BOOLEAN,
   callback_url : BOOLEAN]

SubmitFrom(r, bodies) ==
  /\ svc = "running"
  /\ req[r].pc = "new"
  /\ (IF r = 1 THEN TRUE ELSE req[r - 1].pc # "new")   \* numbered as they arrive
  /\ \E b \in bodies :
       \* job ids are opaque: they are numbered by first use
       /\ \A j \in 1..(b.job_id - 1) : \E q \in 1..(r - 1) : req[q].job_id = j
       /\ req' = [req EXCEPT ![r] =
                 [@ EXCEPT !.job_id = b.job_id, !.model = b.model,
                           !.compute_type = b.compute_type,
                           !.language = b.language, !.diarize = b.diarize,
                           !.synchronous = b.synchronous,
                           !.callback_url = b.callback_url,
                           !.status = "PROCESSING",
                           !.http = IF b.synchronous THEN None
                                    ELSE Some([code |-> 200, job_id |-> b.job_id,
                                               status |-> "PROCESSING"]),
                           !.pc = "fetch"]]
  /\ UNCHANGED <<svc, hf_token, max_retries, models, alignment_models, diarization_pipeline,
                 built, temp_files, bucket>>

Submit(r) == SubmitFrom(r, RequestBodies)

\* ------------------------------------------ the pipeline (transcribe.py)

\* Mutant of FailedResponse: the failure record without its error code.
FailedResponse_NoCode(rec) ==
  [ status |-> "FAILED", error_code |-> None,
    error_message |-> rec.error, transcript_text |-> None, segments |-> None,
    word_segments |-> None, speakers |-> None, language_detected |-> None,
    confidence |-> None, transcript_url |-> None, timestamps_url |-> None ]

\* The except branch of process_transcription_sync (lines 304-315) and its
\* finally (317-320), entered by action HandleException.
FailedResponse(rec) ==
  [ status |-> "FAILED", error_code |-> Some("TRANSCRIPTION_ERROR"),
    error_message |-> rec.error, transcript_text |-> None, segments |-> None,
    word_segments |-> None, speakers |-> None, language_detected |-> None,
    confidence |-> None, transcript_url |-> None, timestamps_url |-> None ]

\* finally: cleanup_temp_file runs only when local_audio_path was assigned.
FilesAfterCleanup(r, rec, files) ==
  IF rec.local_audio_path THEN files \ {r} ELSE files

\* Mutant of Fetch: a failed download is not raised; the pipeline goes on
\* to the model.
Fetch_FailureContinues(r) ==
  /\ req[r].pc = "fetch"
  /\ temp_files' = temp_files \cup {r}
  /\ \/ req' = [req EXCEPT ![r] =
                  [@ EXCEPT !.local_audio_path = TRUE, !.pc = "load_whisper",
                            !.steps = Step(@, "fetch")]]
     \/ req' = [req EXCEPT ![r] =
                  [@ EXCEPT !.error = Some("download"), !.pc = "load_whisper",
                            !.steps = Step(@, "fetch")]]
  /\ UNCHANGED <<svc, hf_token, max_retries, models, alignment_models, diarization_pipeline,
                 built, bucket>>

\* s3_adapter.download_file (lines 68-90), called on the event loop.  It
\* raises before mkstemp (a URL that is not s3://), or after mkstemp when the
\* download fails, or returns the path of the temporary file.
Fetch(r) ==
  /\ req[r].pc = "fetch"
  /\ \/ /\ temp_files' = temp_files \cup {r}
        /\ req' = [req EXCEPT ![r] =
                     [@ EXCEPT !.local_audio_path = TRUE, !.pc = "load_whisper",
                               !.steps = Step(@, "fetch")]]
     \/ /\ temp_files' = temp_files \cup {r}
        /\ req' = [req EXCEPT ![r] =
                     [@ EXCEPT !.error = Some("download"), !.pc = "except",
                               !.steps = Step(@, "fetch")]]
     \/ /\ UNCHANGED temp_files
        /\ req' = [req EXCEPT ![r] =
                     [@ EXCEPT !.error = Some("s3_url"), !.pc = "except",
                               !.steps = Step(@, "fetch")]]
  /\ UNCHANGED <<svc, hf_token, max_retries, models, alignment_models, diarization_pipeline,
                 built, bucket>>

\* _load_whisper_model, lines 65-68: the cache lookup on a pool thread.
LookupWhisperModel(r) ==
  /\ req[r].pc = "load_whisper"
  /\ LET key == WhisperKey(req[r].model, req[r].compute_type) IN
       req' = [req EXCEPT ![r] =
                 IF models[key] # None
                 THEN [@ EXCEPT !.model_handle = models[key], !.pc = "transcribe",
                                !.steps = Step(@, "load_whisper")]
                 ELSE [@ EXCEPT !.pc = "construct_whisper",
                                !.steps = Step(@, "load_whisper")]]
  /\ UNCHANGED <<svc, hf_token, max_retries, models, alignment_models, diarization_pipeline,
                 built, temp_files, bucket>>

\* Mutant of ConstructWhisperModel: the cache entry is written before the
\* load is known to have succeeded.
ConstructWhisperModel_CachesFailure(r) ==
  /\ req[r].pc = "construct_whisper"
  /\ LET key == WhisperKey(req[r].model, req[r].compute_type) IN
       /\ built' = [built EXCEPT ![key] = @ + 1]
       /\ models' = [models EXCEPT ![key] = Some(Handle(key, built'[key]))]
       /\ \/ req' = [req EXCEPT ![r] =
                       [@ EXCEPT !.model_handle = Some(Handle(key, built'[key])),
                                 !.pc = "transcribe"]]
          \/ req' = [req EXCEPT ![r] =
                       [@ EXCEPT !.error = Some("load_model"), !.pc = "except"]]
  /\ UNCHANGED <<svc, hf_token, max_retries, alignment_models, diarization_pipeline, temp_files, bucket>>

\* _load_whisper_model, lines 72-86: whisperx.load_model, then the store into
\* the cache; a failure is raised to the pipeline.
ConstructWhisperModel(r) ==
  /\ req[r].pc = "construct_whisper"
  /\ LET key == WhisperKey(req[r].model, req[r].compute_type) IN
       /\ built' = [built EXCEPT ![key] = @ + 1]
       /\ \/ /\ models' = [models EXCEPT ![key] = Some(Handle(key, built'[key]))]
             /\ req' = [req EXCEPT ![r] =
                          [@ EXCEPT !.model_handle = Some(Handle(key, built'[key])),
                                    !.pc = "transcribe"]]
          \/ /\ UNCHANGED models
             /\ req' = [req EXCEPT ![r] =
                          [@ EXCEPT !.error = Some("load_model"), !.pc = "except"]]
  /\ UNCHANGED <<svc, hf_token, max_retries, alignment_models, diarization_pipeline, temp_files, bucket>>

\* Lines 186-191 and 214-217: where the pipeline goes after recognition and
\* after alignment.
UsableLanguage(language) == language # None /\ Num(language) # "" /\ Num(language) # "auto"

\* Mutant of AfterAlignment: the diarize flag is not looked at.
AfterAlignment_AlwaysDiarize(rec) == "load_diarization"

AfterAlignment(rec) == IF rec.diarize THEN "load_diarization" ELSE "aggregate"

AfterRecognition(rec, language) ==
  IF UsableLanguage(language) THEN "load_align" ELSE AfterAlignment(rec)

\* model.transcribe on a pool thread (lines 179-184), then lines 186-191.
TranscribeFrom(r, outputs) ==
  /\ req[r].pc = "transcribe"
  /\ \/ req' = [req EXCEPT ![r] =
                  [@ EXCEPT !.error = Some("transcribe"), !.pc = "except",
                            !.steps = Step(@, "recognize")]]
     \/ \E out \in outputs :
          LET language == IF "language" \in DOMAIN out
                          THEN Some(out.language) ELSE Some(req[r].language)
          IN req' = [req EXCEPT ![r] =
                       [@ EXCEPT !.result = Some(out),
                                 !.used_language = language,
                                 !.aligned_result = Some(out),
                                 !.pc = AfterRecognition(req[r], language),
                                 !.steps = Step(@, "recognize")]]
  /\ UNCHANGED <<svc, hf_token, max_retries, models, alignment_models, diarization_pipeline,
                 built, temp_files, bucket>>

Transcribe(r) == TranscribeFrom(r, RecognitionOutputs)

\* _load_alignment_model, lines 90-91: the cache lookup on a pool thread.
LookupAlignModel(r) ==
  /\ req[r].pc = "load_align"
  /\ LET language == Num(req[r].used_language) IN
       req' = [req EXCEPT ![r] =
                 IF alignment_models[language] # None
                 THEN [@ EXCEPT !.align_handle = alignment_models[language],
                                !.pc = "align", !.steps = Step(@, "load_align")]
                 ELSE [@ EXCEPT !.pc = "construct_align",
                                !.steps = Step(@, "load_align")]]
  /\ UNCHANGED <<svc, hf_token, max_retries, models, alignment_models, diarization_pipeline,
                 built, temp_files, bucket>>

\* _load_alignment_model, lines 95-107: whisperx.load_align_model, then the
\* store; a failure returns (None, None) and line 199 skips the alignment.
ConstructAlignModel(r) ==
  /\ req[r].pc = "construct_align"
  /\ LET language == Num(req[r].used_language)
         key == AlignKey(language)
     IN /\ built' = [built EXCEPT ![key] = @ + 1]
        /\ \/ /\ alignment_models' =
                   [alignment_models EXCEPT ![language] = Some(Handle(key, built'[key]))]
              /\ req' = [req EXCEPT ![r] =
                           [@ EXCEPT !.align_handle = Some(Handle(key, built'[key])),
                                     !.pc = "align"]]
           \/ /\ UNCHANGED alignment_models
              /\ req' = [req EXCEPT ![r] = [@ EXCEPT !.pc = AfterAlignment(req[r])]]
  /\ UNCHANGED <<svc, hf_token, max_retries, models, diarization_pipeline, temp_files, bucket>>

\* Mutant of Align: an alignment that raised still leaves its output in
\* aligned_result.
Align_KeepsOutput(r) ==
  /\ req[r].pc = "align"
  /\ req' = [req EXCEPT ![r] =
               [@ EXCEPT !.caught = @ \cup {"align"},
                         !.aligned_result = Some(AlignOutput(Num(req[r].result).segments)),
                         !.pc = AfterAlignment(req[r]),
                         !.steps = Step(@, "align")]]
  /\ UNCHANGED <<svc, hf_token, max_retries, models, alignment_models, diarization_pipeline,
                 built, temp_files, bucket>>

\* whisperx.align on a pool thread (lines 201-210); its exception is caught
\* at line 211 and aligned_result stays the recognition result.
Align(r) ==
  /\ req[r].pc = "align"
  /\ \/ req' = [req EXCEPT ![r] =
                  [@ EXCEPT !.caught = @ \cup {"align"},
                            !.pc = AfterAlignment(req[r]), !.steps = Step(@, "align")]]
     \/ req' = [req EXCEPT ![r] =
                  [@ EXCEPT !.aligned_result = Some(AlignOutput(Num(req[r].result).segments)),
                            !.pc = AfterAlignment(req[r]),
                            !.steps = Step(@, "align")]]
  /\ UNCHANGED <<svc, hf_token, max_retries, models, alignment_models, diarization_pipeline,
                 built, temp_files, bucket>>

\* Mutant of LookupDiarizationPipeline: the token is not looked at.
LookupDiarizationPipeline_NoTokenCheck(r) ==
  /\ req[r].pc = "load_diarization"
  /\ req' = [req EXCEPT ![r] =
               IF diarization_pipeline # None
               THEN [@ EXCEPT !.diar_handle = diarization_pipeline, !.pc = "diarize",
                              !.steps = Step(@, "load_diarization")]
               ELSE [@ EXCEPT !.pc = "construct_diarization",
                              !.steps = Step(@, "load_diarization")]]
  /\ UNCHANGED <<svc, hf_token, max_retries, models, alignment_models, diarization_pipeline,
                 built, temp_files, bucket>>

\* _load_diarization_pipeline, lines 111-116: the cached pipeline, or None at
\* once when no token is configured.
LookupDiarizationPipeline(r) ==
  /\ req[r].pc = "load_diarization"
  /\ req' = [req EXCEPT ![r] =
               IF diarization_pipeline # None
               THEN [@ EXCEPT !.diar_handle = diarization_pipeline, !.pc = "diarize",
                              !.steps = Step(@, "load_diarization")]
               ELSE IF ~hf_token
               THEN [@ EXCEPT !.pc = "aggregate", !.steps = Step(@, "load_diarization")]
               ELSE [@ EXCEPT !.pc = "construct_diarization",
                              !.steps = Step(@, "load_diarization")]]
  /\ UNCHANGED <<svc, hf_token, max_retries, models, alignment_models, diarization_pipeline,
                 built, temp_files, bucket>>

\* _load_diarization_pipeline, lines 120-131: whisperx.DiarizationPipeline,
\* then the store; a failure returns None and line 224 skips the diarization.
ConstructDiarizationPipeline(r) ==
  /\ req[r].pc = "construct_diarization"
  /\ built' = [built EXCEPT ![DiarKey] = @ + 1]
  /\ \/ /\ diarization_pipeline' = Some(Handle(DiarKey, built'[DiarKey]))
        /\ req' = [req EXCEPT ![r] =
                     [@ EXCEPT !.diar_handle = Some(Handle(DiarKey, built'[DiarKey])),
                               !.pc = "diarize"]]
     \/ /\ UNCHANGED diarization_pipeline
        /\ req' = [req EXCEPT ![r] = [@ EXCEPT !.pc = "aggregate"]]
  /\ UNCHANGED <<svc, hf_token, max_retries, models, alignment_models, temp_files, bucket>>

\* Mutant of Diarize: an exception of the diarization pipeline is not caught
\* by the block and ends the pipeline.
Diarize_Fatal(r) ==
  /\ req[r].pc = "diarize"
  /\ \/ req' = [req EXCEPT ![r] =
                  [@ EXCEPT !.caught = @ \cup {"diarize"},
                            !.pc = "except", !.steps = Step(@, "diarize")]]
     \/ req' = [req EXCEPT ![r] =
                  [@ EXCEPT !.pc = "assign", !.steps = Step(@, "diarize")]]
  /\ UNCHANGED <<svc, hf_token, max_retries, models, alignment_models, diarization_pipeline,
                 built, temp_files, bucket>>

\* diarization_pipeline(local_audio_path) on a pool thread (lines 226-230);
\* its exception is caught at line 242.
Diarize(r) ==
  /\ req[r].pc = "diarize"
  /\ \/ req' = [req EXCEPT ![r] =
                  [@ EXCEPT !.caught = @ \cup {"diarize"},
                            !.pc = "aggregate", !.steps = Step(@, "diarize")]]
     \/ req' = [req EXCEPT ![r] =
                  [@ EXCEPT !.pc = "assign", !.steps = Step(@, "diarize")]]
  /\ UNCHANGED <<svc, hf_token, max_retries, models, alignment_models, diarization_pipeline,
                 built, temp_files, bucket>>

\* Line 240 after a returned assign_word_speakers: diarized_result is already
\* assigned when _extract_speaker_info raises, and speakers stays None.
WithSpeakers(rec, out) ==
  [rec EXCEPT !.diarized_result = Some(out),
              !.speakers = IF ExtractRaises(GetSegments(out)) THEN None
                           ELSE Some(ExtractSpeakerInfo(GetSegments(out))),
              !.caught = IF ExtractRaises(GetSegments(out))
                         THEN rec.caught \cup {"extract"} ELSE rec.caught,
              !.pc = "aggregate",
              !.steps = Step(rec.steps, "assign") \o <<"extract">>]

\* whisperx.assign_word_speakers on a pool thread (lines 232-237), then the
\* speaker summaries (line 240); an exception of either is caught at line 242.
AssignSpeakers(r) ==
  /\ req[r].pc = "assign"
  /\ \/ req' = [req EXCEPT ![r] =
                  [@ EXCEPT !.caught = @ \cup {"assign"},
                            !.pc = "aggregate", !.steps = Step(@, "assign")]]
     \/ \E out \in AssignOutputs(Num(req[r].aligned_result)) :
          req' = [req EXCEPT ![r] = WithSpeakers(req[r], out)]
  /\ UNCHANGED <<svc, hf_token, max_retries, models, alignment_models, diarization_pipeline,
                 built, temp_files, bucket>>

\* Line 215 and the except of line 242: diarized_result is aligned_result
\* unless assign_word_speakers returned.
DiarizedResult(rec) ==
  IF rec.diarized_result # None THEN Num(rec.diarized_result) ELSE Num(rec.aligned_result)

\* Mutant of CompletedResponse: the background task leaves the confidence
\* out of its result.
CompletedResponse_AsyncNoConfidence(rec, transcript_url, timestamps_url) ==
  [ status |-> "COMPLETED", error_code |-> None, error_message |-> None,
    transcript_text |-> Some(TranscriptText(DiarizedResult(rec))),
    segments |-> Some(GetSegments(DiarizedResult(rec))),
    word_segments |-> Some(GetWordSegments(DiarizedResult(rec))),
    speakers |-> rec.speakers,
    language_detected |-> rec.used_language,
    confidence |-> IF rec.synchronous
                   THEN AvgConfidence(GetSegments(DiarizedResult(rec))) ELSE None,
    transcript_url |-> transcript_url, timestamps_url |-> timestamps_url ]

\* Lines 284-299: the response of a finished pipeline.
CompletedResponse(rec, transcript_url, timestamps_url) ==
  [ status |-> "COMPLETED", error_code |-> None, error_message |-> None,
    transcript_text |-> Some(TranscriptText(DiarizedResult(rec))),
    segments |-> Some(GetSegments(DiarizedResult(rec))),
    word_segments |-> Some(GetWordSegments(DiarizedResult(rec))),
    speakers |-> rec.speakers,
    language_detected |-> rec.used_language,
    confidence |-> AvgConfidence(GetSegments(DiarizedResult(rec))),
    transcript_url |-> transcript_url, timestamps_url |-> timestamps_url ]

\* The uploads of lines 258-279: upload_text_file, then upload_json_file;
\* the first that raises ends the block, and a URL is set only by the upload
\* that returned it.
UploadOutcomes == {"stored", "text_fails", "json_fails"}

\* Mutant of TranscriptUrl: the location is set whether or not the upload
\* returned.
TranscriptUrl_Always(rec, outcome) == Some(TranscriptKey(rec.job_id))

TranscriptUrl(rec, outcome) ==
  IF outcome = "text_fails" THEN None ELSE Some(TranscriptKey(rec.job_id))

TimestampsUrl(rec, outcome) ==
  IF outcome = "stored" THEN Some(TimestampsKey(rec.job_id)) ELSE None

BucketAfter(r, rec, outcome) ==
  [k \in ArtifactKeys |->
     IF k = TranscriptKey(rec.job_id) /\ outcome # "text_fails" THEN Some(r)
     ELSE IF k = TimestampsKey(rec.job_id) /\ outcome = "stored" THEN Some(r)
     ELSE bucket[k]]

UploadCaught(outcome) ==
  IF outcome = "text_fails" THEN {"upload_text"}
  ELSE IF outcome = "json_fails" THEN {"upload_json"} ELSE {}

\* Mutant of PersistSteps: the timings are uploaded before the transcript.
PersistSteps_TimingsFirst(outcome) ==
  IF outcome = "text_fails" THEN <<"persist_timings">>
  ELSE <<"persist_timings", "persist_transcript">>

PersistSteps(outcome) ==
  IF outcome = "text_fails" THEN <<"persist_transcript">>
  ELSE <<"persist_transcript", "persist_timings">>

CleanupSteps(rec) == IF rec.local_audio_path THEN <<"cleanup">> ELSE <<>>

\* Mutant of CompleteFrom: building the response raises after the uploads,
\* so the pipeline ends in its except branch with the artifacts written.
CompleteFrom_RaisesAfterUpload(r, outcomes) ==
  /\ req[r].pc = "aggregate"
  /\ \E outcome \in outcomes :
       /\ bucket' = BucketAfter(r, req[r], outcome)
       /\ req' = [req EXCEPT ![r] =
            [@ EXCEPT !.error = Some("response"), !.pc = "except",
                      !.caught = @ \cup UploadCaught(outcome),
                      !.steps = Step(@, "aggregate") \o PersistSteps(outcome)]]
  /\ UNCHANGED <<svc, hf_token, max_retries, models, alignment_models, diarization_pipeline,
                 built, temp_files>>

\* Lines 245-302 and the finally of 317-320, one stretch of the event loop:
\* aggregate, upload, build the response, remove the temporary file, return.
CompleteFrom(r, outcomes) ==
  /\ req[r].pc = "aggregate"
  /\ \E outcome \in outcomes :
       /\ bucket' = BucketAfter(r, req[r], outcome)
       /\ req' = [req EXCEPT ![r] =
            AfterPipeline(
              [@ EXCEPT !.status = "COMPLETED",
                        !.caught = @ \cup UploadCaught(outcome),
                        !.response = Some(CompletedResponse(req[r],
                                            TranscriptUrl(req[r], outcome),
                                            TimestampsUrl(req[r], outcome))),
                        !.steps = Step(@, "aggregate") \o PersistSteps(outcome)
                                  \o CleanupSteps(req[r])])]
  /\ temp_files' = FilesAfterCleanup(r, req[r], temp_files)
  /\ UNCHANGED <<svc, hf_token, max_retries, models, alignment_models, diarization_pipeline, built>>

Complete(r) == CompleteFrom(r, UploadOutcomes)

\* Lines 304-320: the except branch and the finally of a pipeline that raised.
HandleException(r) ==
  /\ req[r].pc = "except"
  /\ req' = [req EXCEPT ![r] =
               AfterPipeline(
                 [@ EXCEPT !.status = "FAILED",
                           !.response = Some(FailedResponse(req[r])),
                           !.steps = @ \o CleanupSteps(req[r])])]
  /\ temp_files' = FilesAfterCleanup(r, req[r], temp_files)
  /\ UNCHANGED <<svc, hf_token, max_retries, models, alignment_models, diarization_pipeline,
                 built, bucket>>

\* ------------------------------------- the callback (_send_callback)

\* Line 378: the pause after failed attempt number `attempt` (from 0).
RECURSIVE Pow2(_)
Pow2(n) == IF n = 0 THEN 1 ELSE 2 * Pow2(n - 1)

\* Mutant of Backoff: the pause grows by one unit per attempt.
Backoff_Linear(attempt) == attempt + 1

\* Mutant of Backoff: a fixed pause.
Backoff_Fixed(attempt) == 1

Backoff(attempt) == Pow2(attempt)

\* The callback_url the callers give.
CallbackBase == <<"h", "t", "t", "p", ":", "/", "/", "a", "p", "i">>

\* Mutant of CallbackUrl: the job id is left out of the address.
CallbackUrl_NoJobId(callback_url, job_id) ==
  callback_url \o <<"/">> \o <<"/", "c", "a", "l", "l", "b", "a", "c", "k">>

\* Line 366: f"{callback_url}/{job_id}/callback".
CallbackUrl(callback_url, job_id) ==
  callback_url \o <<"/">> \o JobIdStr(job_id)
  \o <<"/", "c", "a", "l", "l", "b", "a", "c", "k">>

\* Lines 351-355: json.dumps of the bundle of segments, word segments and
\* speakers, or None when the result has no segment.
TimestampsJson(result) ==
  IF result.segments = None \/ result.segments = Some(<<>>) THEN None
  ELSE Some([json |-> [segments |-> result.segments,
                       word_segments |-> result.word_segments,
                       speakers |-> result.speakers]])

\* Lines 347-360: TranscriptionCallback(...) for the job and its result.
CallbackData(job_id, result) ==
  [ job_id |-> job_id,
    status |-> result.status,
    transcript_text |-> result.transcript_text,
    timestamps_json |-> TimestampsJson(result),
    error_message |-> result.error_message,
    language_detected |-> result.language_detected,
    confidence |-> result.confidence ]

\* Mutant of BuildCallback: an exception of the payload is raised to
\* process_transcription_async, whose except branch calls _send_callback
\* once more.
BuildCallback_RaisesToCaller(r) ==
  /\ req[r].pc = "callback_build"
  /\ \/ req' = [req EXCEPT ![r] =
                  [@ EXCEPT !.callback_data =
                              Some(CallbackData(req[r].job_id, Num(req[r].response))),
                            !.pc = "callback_post"]]
     \/ req' = [req EXCEPT ![r] =
                  IF req[r].callbacks < 2
                  THEN [@ EXCEPT !.callbacks = @ + 1]
                  ELSE [@ EXCEPT !.delivery = "aborted", !.pc = "done"]]
  /\ UNCHANGED <<svc, hf_token, max_retries, models, alignment_models,
                 diarization_pipeline, built, temp_files, bucket>>

\* Lines 345-360: the payload.  An exception here is caught by the outer
\* except of line 382: the call returns with no POST made.
BuildCallback(r) ==
  /\ req[r].pc = "callback_build"
  /\ \/ req' = [req EXCEPT ![r] =
                  [@ EXCEPT !.callback_data =
                              Some(CallbackData(req[r].job_id, Num(req[r].response))),
                            !.pc = "callback_post"]]
     \/ req' = [req EXCEPT ![r] = [@ EXCEPT !.delivery = "aborted", !.pc = "done"]]
  /\ UNCHANGED <<svc, hf_token, max_retries, models, alignment_models, diarization_pipeline,
                 built, temp_files, bucket>>

\* Mutant of AfterPost: the loop sleeps after the last attempt too.
AfterPost_SleepsAfterLast(rec, outcome) ==
  IF outcome = "ok"
  THEN [rec EXCEPT !.posts = Append(@, outcome), !.delivery = "delivered", !.pc = "done"]
  ELSE IF outcome = "other"
  THEN [rec EXCEPT !.posts = Append(@, outcome), !.delivery = "aborted", !.pc = "done"]
  ELSE IF rec.attempt < max_retries - 1
  THEN [rec EXCEPT !.posts = Append(@, outcome),
                   !.delays = Append(@, Pow2(rec.attempt)),
                   !.attempt = @ + 1]
  ELSE [rec EXCEPT !.posts = Append(@, outcome),
                   !.delays = Append(@, Pow2(rec.attempt)),
                   !.delivery = "exhausted", !.pc = "done"]

\* Mutant of AfterPost: after the last attempt the loop starts over.
AfterPost_StartsOver(rec, outcome) ==
  IF outcome = "ok"
  THEN [rec EXCEPT !.posts = Append(@, outcome), !.delivery = "delivered", !.pc = "done"]
  ELSE IF outcome = "other"
  THEN [rec EXCEPT !.posts = Append(@, outcome), !.delivery = "aborted", !.pc = "done"]
  ELSE IF rec.attempt < max_retries - 1
  THEN [rec EXCEPT !.posts = Append(@, outcome),
                   !.delays = Append(@, Pow2(rec.attempt)),
                   !.attempt = @ + 1]
  ELSE [rec EXCEPT !.posts = <<>>, !.delays = <<>>, !.posted = <<>>, !.attempt = 0]

\* Mutant of AfterPost: the loop bound is off by one.
AfterPost_OneMore(rec, outcome) ==
  IF outcome = "ok"
  THEN [rec EXCEPT !.posts = Append(@, outcome), !.delivery = "delivered", !.pc = "done"]
  ELSE IF outcome = "other"
  THEN [rec EXCEPT !.posts = Append(@, outcome), !.delivery = "aborted", !.pc = "done"]
  ELSE IF rec.attempt < max_retries
  THEN [rec EXCEPT !.posts = Append(@, outcome),
                   !.delays = Append(@, Pow2(rec.attempt)),
                   !.attempt = @ + 1]
  ELSE [rec EXCEPT !.posts = Append(@, outcome), !.delivery = "exhausted", !.pc = "done"]

\* What one turn of the loop of lines 363-378 leaves, by the outcome of the
\* POST: "ok" (2xx) returns; "request_exception" (a non-2xx answer or a
\* transport error, requests.RequestException) sleeps and retries while
\* attempts are left; "other" (any other exception) is caught by the outer
\* except of line 382 and ends the call.
AfterPost(rec, outcome) ==
  IF outcome = "ok"
  THEN [rec EXCEPT !.posts = Append(@, outcome), !.delivery = "delivered", !.pc = "done"]
  ELSE IF outcome = "other"
  THEN [rec EXCEPT !.posts = Append(@, outcome), !.delivery = "aborted", !.pc = "done"]
  ELSE IF rec.attempt < max_retries - 1
  THEN [rec EXCEPT !.posts = Append(@, outcome),
                   !.delays = Append(@, Backoff(rec.attempt)),
                   !.attempt = @ + 1]
  ELSE [rec EXCEPT !.posts = Append(@, outcome), !.delivery = "exhausted", !.pc = "done"]

PostOutcomes == {"ok", "request_exception", "other"}

\* Lines 365-369: requests.post(url, json=callback_data.dict(), ...).
WithPosted(rec, callback_data) ==
  [rec EXCEPT !.posted = Append(@, [url |-> CallbackUrl(CallbackBase, rec.job_id),
                                    json |-> callback_data])]

PostCallback(r) ==
  /\ req[r].pc = "callback_post"
  /\ \E outcome \in PostOutcomes :
       req' = [req EXCEPT ![r] =
                 WithPosted(AfterPost(req[r], outcome), Num(req[r].callback_data))]
  /\ UNCHANGED <<svc, hf_token, max_retries, models, alignment_models, diarization_pipeline,
                 built, temp_files, bucket>>

\* ------------------------------------------------------ specification

Next ==
  \/ Initialize
  \/ Cleanup
  \/ \E r \in DOMAIN req :
       \/ Submit(r)
       \/ Fetch(r)
       \/ LookupWhisperModel(r)
       \/ ConstructWhisperModel(r)
       \/ Transcribe(r)
       \/ LookupAlignModel(r)
       \/ ConstructAlignModel(r)
       \/ Align(r)
       \/ LookupDiarizationPipeline(r)
       \/ ConstructDiarizationPipeline(r)
       \/ Diarize(r)
       \/ AssignSpeakers(r)
       \/ Complete(r)
       \/ HandleException(r)
       \/ BuildCallback(r)
       \/ PostCallback(r)

Spec == Init /\ [][Next]_vars

\* Every call a request awaits returns or raises, and the event loop runs
\* every coroutine that is ready: each step of a request that stays enabled
\* is eventually taken.  Nothing obliges a caller to send a request or the
\* operator to shut the service down.
Progress(r) ==
  /\ WF_vars(Fetch(r))
  /\ WF_vars(LookupWhisperModel(r))
  /\ WF_vars(ConstructWhisperModel(r))
  /\ WF_vars(Transcribe(r))
  /\ WF_vars(LookupAlignModel(r))
  /\ WF_vars(ConstructAlignModel(r))
  /\ WF_vars(Align(r))
  /\ WF_vars(LookupDiarizationPipeline(r))
  /\ WF_vars(ConstructDiarizationPipeline(r))
  /\ WF_vars(Diarize(r))
  /\ WF_vars(AssignSpeakers(r))
  /\ WF_vars(Complete(r))
  /\ WF_vars(HandleException(r))
  /\ WF_vars(BuildCallback(r))
  /\ WF_vars(PostCallback(r))

\* The service as constructed with the default MAX_RETRIES (line 38).
InitLive == Init /\ max_retries = DefaultMaxRetries

SpecLive == InitLive /\ [][Next]_vars /\ \A r \in 1..NumRequests : Progress(r)

\* Several requests at once.  To keep the state space within reach the
\* requests are synchronous ones with the language given, recognition
\* returns the first output and the transcript upload succeeds; everything
\* else is drawn as under Spec.
ConcurrentBodies ==
  {b \in RequestBodies : b.synchronous /\ ~b.callback_url /\ b.language = "en"}

ConcurrentOutputs == {out \in RecognitionOutputs : "language" \in DOMAIN out}

ConcurrentUploads == {"stored", "json_fails"}

InitConcurrent ==
  /\ svc = "created"
  /\ hf_token \in BOOLEAN
  /\ max_retries = DefaultMaxRetries
  /\ models = [k \in WhisperKeys |-> None]
  /\ alignment_models = [l \in AlignLanguages |-> None]
  /\ diarization_pipeline = None
  /\ built = [k \in AllKeys |-> 0]
  /\ temp_files = {}
  /\ bucket = [k \in ArtifactKeys |-> None]
  /\ req = [r \in 1..NumConcurrent |-> NewRequest]

NextConcurrent ==
  \/ Initialize
  \/ Cleanup
  \/ \E r \in DOMAIN req :
       \/ SubmitFrom(r, ConcurrentBodies)
       \/ Fetch(r)
       \/ LookupWhisperModel(r)
       \/ ConstructWhisperModel(r)
       \/ TranscribeFrom(r, ConcurrentOutputs)
       \/ LookupAlignModel(r)
       \/ ConstructAlignModel(r)
       \/ Align(r)
       \/ LookupDiarizationPipeline(r)
       \/ ConstructDiarizationPipeline(r)
       \/ Diarize(r)
       \/ AssignSpeakers(r)
       \/ CompleteFrom(r, ConcurrentUploads)
       \/ HandleException(r)

SpecConcurrent == InitConcurrent /\ [][NextConcurrent]_vars

\* The aggregation over every short recognition output.  One synchronous
\* request for the loaded model, with language "auto" and no diarization,
\* goes from recognition straight to the aggregation; model.transcribe
\* returns any sequence of at most MaxSegments segments, each with a start
\* of 0 or 1, a text that is empty, plain or padded with blanks, and a
\* confidence that is missing, 0 or 2.
SegmentTexts == { <<>>, <<"a">>, <<" ", "b", " ">> }

SegmentStarts == {0, 1}

SegmentConfidences == {None, Some(0), Some(2)}

BoundedSegments ==
  { IF c = None THEN Seg(s, s + 1, t) ELSE WithConfidence(Seg(s, s + 1, t), Num(c)) :
      s \in SegmentStarts, t \in SegmentTexts, c \in SegmentConfidences }

BoundedOutputs ==
  { [segments |-> segs] :
      segs \in UNION { [1..n -> BoundedSegments] : n \in 0..MaxSegments } }

AggregateBodies ==
  {b \in RequestBodies : /\ b.synchronous /\ ~b.callback_url /\ ~b.diarize
                         /\ b.language = "auto" /\ b.model = "base" /\ b.job_id = 1}

NextAggregate ==
  \/ Initialize
  \/ Cleanup
  \/ SubmitFrom(1, AggregateBodies)
  \/ \E r \in DOMAIN req :
       \/ Fetch(r)
       \/ LookupWhisperModel(r)
       \/ TranscribeFrom(r, BoundedOutputs)
       \/ CompleteFrom(r, {"stored"})
       \/ HandleException(r)

InitAggregate == Init /\ max_retries = DefaultMaxRetries

SpecAggregate == InitAggregate /\ [][NextAggregate]_vars

\* The same request in both modes.  A synchronous request is served to its
\* end; then the caller sends it again, unchanged but for the mode:
\* asynchronous, with a callback URL.
ModeBodies ==
  {b \in RequestBodies : b.synchronous /\ ~b.callback_url /\ b.job_id = 1}

SubmitOtherMode ==
  /\ svc = "running"
  /\ req[1].pc = "done"
  /\ req[2].pc = "new"
  /\ req' = [req EXCEPT ![2] =
               [@ EXCEPT !.job_id = req[1].job_id, !.model = req[1].model,
                         !.compute_type = req[1].compute_type,
                         !.language = req[1].language, !.diarize = req[1].diarize,
                         !.synchronous = FALSE,
                         !.callback_url = TRUE,
                         !.status = "PROCESSING",
                         !.http = Some([code |-> 200, job_id |-> req[1].job_id,
                                        status |-> "PROCESSING"]),
                         !.pc = "fetch"]]
  /\ UNCHANGED <<svc, hf_token, max_retries, models, alignment_models,
                 diarization_pipeline, built, temp_files, bucket>>

NextModes ==
  \/ Initialize
  \/ Cleanup
  \/ SubmitFrom(1, ModeBodies)
  \/ SubmitOtherMode
  \/ \E r \in DOMAIN req :
       \/ Fetch(r)
       \/ LookupWhisperModel(r)
       \/ ConstructWhisperModel(r)
       \/ Transcribe(r)
       \/ LookupAlignModel(r)
       \/ ConstructAlignModel(r)
       \/ Align(r)
       \/ LookupDiarizationPipeline(r)
       \/ ConstructDiarizationPipeline(r)
       \/ Diarize(r)
       \/ AssignSpeakers(r)
       \/ Complete(r)
       \/ HandleException(r)
       \/ BuildCallback(r)
       \/ PostCallback(r)

SpecModes == InitConcurrent /\ [][NextModes]_vars

\* ------------------------------------------------------------ the claims

Ran(r, stage) == \E i \in 1..Len(req[r].steps) : req[r].steps[i] = stage

Returned(r) == req[r].response # None

Response(r) == Num(req[r].response)

LaterStages ==
  {"load_align", "align", "load_diarization", "diarize", "assign", "extract",
   "aggregate", "persist_transcript", "persist_timings"}

RecognitionRaised(r) == req[r].error = Some("transcribe")

ConstructingKey(r) ==
  IF req[r].pc = "construct_whisper"
  THEN Some(WhisperKey(req[r].model, req[r].compute_type))
  ELSE IF req[r].pc = "construct_align" THEN Some(AlignKey(Num(req[r].used_language)))
  ELSE IF req[r].pc = "construct_diarization" THEN Some(DiarKey)
  ELSE None

HandlesOf(r) == {req[r].model_handle, req[r].align_handle, req[r].diar_handle} \ {None}

C2_SingleConstruction ==
  \A r1, r2 \in DOMAIN req :
    r1 # r2 =>
      /\ ConstructingKey(r1) # None => ConstructingKey(r1) # ConstructingKey(r2)
      /\ \A h1 \in HandlesOf(r1), h2 \in HandlesOf(r2) :
           Num(h1).key = Num(h2).key => h1 = h2

\* C3: a job's status only moves PENDING -> PROCESSING -> COMPLETED or
\* FAILED, one step at a time, and a COMPLETED or FAILED job keeps its
\* status and its result.
StatusStep(r) ==
  \/ req'[r].status = req[r].status
  \/ req[r].status = "PENDING" /\ req'[r].status = "PROCESSING"
  \/ req[r].status = "PROCESSING" /\ req'[r].status \in {"COMPLETED", "FAILED"}

TerminalFrozen(r) ==
  req[r].status \in {"COMPLETED", "FAILED"} =>
    /\ req'[r].status = req[r].status
    /\ req'[r].response = req[r].response

AlignRaised(r) == "align" \in req[r].caught

\* C4 as stated: when whisperx.align raises, the job ends COMPLETED, its
\* segments are exactly the recognition segments and it has no word segments.
C4_Original ==
  \A r \in DOMAIN req :
    AlignRaised(r) /\ Returned(r) =>
      /\ Response(r).status = "COMPLETED"
      /\ Response(r).segments = Some(Num(req[r].result).segments)
      /\ Response(r).word_segments = Some(<<>>)

\* C4 amended: when whisperx.align raises, the job ends COMPLETED with no
\* word segments; its segments are exactly the recognition segments unless
\* speaker assignment returned afterwards, and then they are what speaker
\* assignment made of the recognition segments.
C4_AlignmentFailure ==
  \A r \in DOMAIN req :
    AlignRaised(r) /\ Returned(r) =>
      /\ req[r].status = "COMPLETED"
      /\ Response(r).status = "COMPLETED"
      /\ Response(r).word_segments = Some(<<>>)
      /\ IF req[r].diarized_result = None
         THEN Response(r).segments = Some(Num(req[r].result).segments)
         ELSE /\ Num(req[r].diarized_result) \in AssignOutputs(Num(req[r].result))
              /\ Response(r).segments = Some(Num(req[r].diarized_result).segments)

C4_Witness ==
  \E r \in DOMAIN req :
    AlignRaised(r) /\ req[r].pc = "done" /\ req[r].diarized_result # None

DiarizationRaised(r) == req[r].caught \cap {"diarize", "assign", "extract"} # {}

\* C5: when the diarization pipeline, the speaker assignment or the speaker
\* summaries raise, the job ends COMPLETED, its segments are the
\* pre-diarization segments without a speaker label, and it has no speaker
\* summary.
C5_DiarizationFailure ==
  \A r \in DOMAIN req :
    DiarizationRaised(r) /\ Returned(r) =>
      /\ Response(r).status = "COMPLETED"
      /\ Response(r).segments = Some(GetSegments(Num(req[r].aligned_result)))
      /\ \A i \in 1..Len(Num(Response(r).segments)) :
           "speaker" \notin DOMAIN Num(Response(r).segments)[i]
      /\ Response(r).speakers = None

\* C6: with diarization requested and no token configured, the diarization
\* pipeline is never constructed nor run, and a job that got as far as asking
\* for it ends COMPLETED without speaker summaries, error code or error
\* message.
C6_NoToken ==
  \A r \in DOMAIN req :
    (~hf_token /\ req[r].diarize) =>
      /\ built[DiarKey] = 0
      /\ diarization_pipeline = None
      /\ req[r].diar_handle = None
      /\ ~Ran(r, "diarize") /\ ~Ran(r, "assign")
      /\ (Ran(r, "load_diarization") /\ Returned(r)) =>
           /\ req[r].status = "COMPLETED"
           /\ Response(r).status = "COMPLETED"
           /\ Response(r).speakers = None
           /\ Response(r).error_code = None
           /\ Response(r).error_message = None

C6_Witness ==
  \E r \in DOMAIN req :
    ~hf_token /\ req[r].diarize /\ Ran(r, "load_diarization") /\ req[r].pc = "done"

\* C7: an endpoint that fails the first two attempts and accepts the third
\* gets exactly 3 POSTs, the pause before the third is longer than the pause
\* before the second, and the delivery ends successful.
C7_ThirdAttemptDelivers ==
  \A r \in DOMAIN req :
    ( /\ Len(req[r].posts) >= 3
      /\ req[r].posts[1] = "request_exception"
      /\ req[r].posts[2] = "request_exception"
      /\ req[r].posts[3] = "ok" ) =>
      /\ Len(req[r].posts) = 3
      /\ req[r].delivery = "delivered"
      /\ req[r].pc = "done"
      /\ req[r].delays = <<1, 2>>
      /\ req[r].delays[2] > req[r].delays[1]

C7_Witness ==
  \E r \in DOMAIN req : req[r].posts = <<"request_exception", "request_exception", "ok">>

DeliveryFailed(r) == req[r].pc = "done" /\ req[r].delivery \in {"exhausted", "aborted"}

OnlyRequestExceptions(posts) ==
  \A i \in 1..Len(posts) : posts[i] = "request_exception"

C9_NoTempFileLeft ==
  \A r \in DOMAIN req : req[r].status \in {"COMPLETED", "FAILED"} => r \notin temp_files

UploadFailed(r) == req[r].caught \cap {"upload_text", "upload_json"} # {}

\* C10 as stated: when either upload fails, the job ends COMPLETED, the
\* result carries the transcript text, the segments and the word segments,
\* and both artifact locations are absent.
C10_Original ==
  \A r \in DOMAIN req :
    UploadFailed(r) /\ Returned(r) =>
      /\ Response(r).status = "COMPLETED"
      /\ Response(r).transcript_text = Some(TranscriptText(DiarizedResult(req[r])))
      /\ Response(r).segments = Some(GetSegments(DiarizedResult(req[r])))
      /\ Response(r).word_segments = Some(GetWordSegments(DiarizedResult(req[r])))
      /\ Response(r).transcript_url = None
      /\ Response(r).timestamps_url = None

\* C10 amended: when either upload fails, the job ends COMPLETED and the
\* result carries the transcript text, the segments and the word segments;
\* the timings location is absent, and the transcript location is absent
\* when the transcript upload failed but present when only the timings
\* upload failed.
C10_PersistenceFailure ==
  \A r \in DOMAIN req :
    UploadFailed(r) /\ Returned(r) =>
      /\ req[r].status = "COMPLETED"
      /\ Response(r).status = "COMPLETED"
      /\ Response(r).transcript_text = Some(TranscriptText(DiarizedResult(req[r])))
      /\ Response(r).segments = Some(GetSegments(DiarizedResult(req[r])))
      /\ Response(r).word_segments = Some(GetWordSegments(DiarizedResult(req[r])))
      /\ Response(r).timestamps_url = None
      /\ "upload_text" \in req[r].caught => Response(r).transcript_url = None
      /\ "upload_json" \in req[r].caught =>
           Response(r).transcript_url = Some(TranscriptKey(req[r].job_id))

C10_Witness ==
  \E r \in DOMAIN req :
    /\ "upload_json" \in req[r].caught
    /\ req[r].pc = "done"
    /\ Num(Response(r).word_segments) # <<>>

FetchRaised(r) == req[r].error \in {Some("download"), Some("s3_url")}

StagesAfterFetch ==
  {"load_whisper", "recognize"} \cup LaterStages

CacheOf(m, a, d, key) ==
  IF key \in WhisperKeys THEN m[key]
  ELSE IF key = DiarKey THEN d
  ELSE a[key[2]]

HeldFor(rec, key) ==
  IF key \in WhisperKeys THEN rec.model_handle
  ELSE IF key = DiarKey THEN rec.diar_handle
  ELSE rec.align_handle

Cached(key) == CacheOf(models, alignment_models, diarization_pipeline, key)

CachedNext(key) == CacheOf(models', alignment_models', diarization_pipeline', key)

LookingUpKey(r) ==
  IF req[r].pc = "load_whisper"
  THEN Some(WhisperKey(req[r].model, req[r].compute_type))
  ELSE IF req[r].pc = "load_align" THEN Some(AlignKey(Num(req[r].used_language)))
  ELSE IF req[r].pc = "load_diarization" THEN Some(DiarKey)
  ELSE None

\* A construction of request r ends in this step: it failed when r holds no
\* handle afterwards; then the cache entry is what it was.  Otherwise the
\* new handle is the cache entry and the one r holds.
ConstructionStep(r) ==
  (ConstructingKey(r) # None /\ req'[r].pc # req[r].pc) =>
    LET key == Num(ConstructingKey(r)) IN
      /\ built'[key] = built[key] + 1
      /\ IF HeldFor(req'[r], key) = None
         THEN CachedNext(key) = Cached(key)
         ELSE /\ HeldFor(req'[r], key) = Some(Handle(key, built'[key]))
              /\ CachedNext(key) = HeldFor(req'[r], key)

\* An acquire of request r starts in this step: with an entry in the cache
\* it gets that entry and nothing is constructed; without one it goes on to
\* construct (the diarization pipeline only when a token is configured).
AcquireStep(r) ==
  (LookingUpKey(r) # None /\ req'[r].pc # req[r].pc) =>
    LET key == Num(LookingUpKey(r)) IN
      /\ built' = built
      /\ IF Cached(key) # None
         THEN /\ HeldFor(req'[r], key) = Cached(key)
              /\ req'[r].pc \notin {"construct_whisper", "construct_align",
                                    "construct_diarization"}
         ELSE (key # DiarKey \/ hf_token) =>
                req'[r].pc \in {"construct_whisper", "construct_align",
                                "construct_diarization"}

\* C12: a failed construction leaves the cache entry of its key as it was
\* (no entry is made for the failure), an acquire that finds no entry
\* constructs again, an acquire that finds an entry returns it without
\* constructing, and an entry once made stays until the service is shut
\* down; for the recognition models, the alignment models and the
\* diarization pipeline.
C12_FailureNotCached ==
  [][ /\ \A r \in DOMAIN req : ConstructionStep(r) /\ AcquireStep(r)
      /\ \A key \in AllKeys :
           /\ Cached(key) # None => (CachedNext(key) # None \/ svc' = "stopped")
           /\ CachedNext(key) # None => Num(CachedNext(key)).n \in 1..built'[key] ]_vars

C12_Witness ==
  \E r1, r2 \in DOMAIN req :
    /\ req[r1].error = Some("load_model")
    /\ req[r2].model = req[r1].model
    /\ req[r2].model_handle =
         Some(Handle(WhisperKey(req[r2].model, req[r2].compute_type), 2))
    /\ models[WhisperKey(req[r2].model, req[r2].compute_type)] = req[r2].model_handle
    /\ req[r2].pc = "done"


\* The segments in ascending order of start (stable), and the text the
\* claim describes: their trimmed texts, the empty ones left out, joined by
\* single spaces.
RECURSIVE InsertByStart(_, _)
InsertByStart(seg, sorted) ==
  IF sorted = <<>> THEN <<seg>>
  ELSE IF Num(seg.start) < Num(Head(sorted).start) THEN <<seg>> \o sorted
  ELSE <<Head(sorted)>> \o InsertByStart(seg, Tail(sorted))

RECURSIVE SortByStart(_)
SortByStart(segments) ==
  IF segments = <<>> THEN <<>>
  ELSE InsertByStart(segments[Len(segments)],
                     SortByStart(SubSeq(segments, 1, Len(segments) - 1)))

NonEmptyTrimmed(segments) ==
  SelectSeq([i \in 1..Len(segments) |-> Strip(segments[i].text)],
            LAMBDA t : t # <<>>)

Completed(r) == Returned(r) /\ Response(r).status = "COMPLETED"

\* C13: the transcript text of a completed job is the trimmed, non-empty
\* texts of its segments, in ascending order of start, joined by single
\* spaces; every segment, the empty ones too, stays in the segment list.
C13_TranscriptText ==
  \A r \in DOMAIN req :
    Completed(r) =>
      /\ Response(r).segments = Some(GetSegments(Num(req[r].result)))
      /\ Response(r).transcript_text =
           Some(JoinSpace(NonEmptyTrimmed(SortByStart(Num(Response(r).segments)))))

\* The confidence values that are present, in order.
RECURSIVE ConfidenceValues(_)
ConfidenceValues(segments) ==
  IF segments = <<>> THEN <<>>
  ELSE (IF "confidence" \in DOMAIN Head(segments)
        THEN <<Head(segments).confidence>> ELSE <<>>)
       \o ConfidenceValues(Tail(segments))

RECURSIVE SumOf(_)
SumOf(values) == IF values = <<>> THEN 0 ELSE Head(values) + SumOf(Tail(values))

\* C14: the average confidence of a completed job is absent when no segment
\* carries a confidence, and otherwise is the sum of the confidences that
\* are present over the number of segments that carry one.
C14_AverageConfidence ==
  \A r \in DOMAIN req :
    Completed(r) =>
      LET values == ConfidenceValues(Num(Response(r).segments)) IN
        /\ values = <<>> <=> Response(r).confidence = None
        /\ values # <<>> =>
             /\ Num(Response(r).confidence).sum = SumOf(values)
             /\ Num(Response(r).confidence).n = Len(values)

C14_Witness ==
  \E r \in DOMAIN req :
    /\ Completed(r)
    /\ req[r].pc = "done"
    /\ Len(Num(Response(r).segments)) = 3
    /\ Response(r).confidence = Some([sum |-> 2, n |-> 2])


Asynchronous(r) == req[r].pc # "new" /\ ~req[r].synchronous

SynchronousAnswered(r) == req[r].synchronous /\ req[r].http # None

\* C16: the answer to a request in synchronous mode carries a terminal
\* result: its status is COMPLETED or FAILED, it is the result of the
\* pipeline, and no synchronous request ends without an answer, whichever
\* stage failed.
C16_SyncTerminal ==
  \A r \in DOMAIN req :
    /\ SynchronousAnswered(r) =>
         /\ Num(req[r].http).code = 200
         /\ Num(req[r].http).status \in {"COMPLETED", "FAILED"}
         /\ Returned(r) /\ Num(req[r].http).status = Response(r).status
    /\ (req[r].synchronous /\ req[r].pc = "done") => req[r].http # None

C16_Witness ==
  \E r \in DOMAIN req :
    /\ SynchronousAnswered(r)
    /\ req[r].error = Some("load_model")
    /\ Num(req[r].http).status = "FAILED"


InProgress(r) == req[r].pc \notin {"new", "done"}

\* C17: no two executions of the pipeline for the same job id are in
\* progress at the same time.
C17_OneExecutionPerJob ==
  \A r1, r2 \in DOMAIN req :
    (r1 # r2 /\ InProgress(r1) /\ InProgress(r2)) => req[r1].job_id # req[r2].job_id


KeysOf(job_id) == {TranscriptKey(job_id), TimestampsKey(job_id)}

\* The object at an artifact location was last written by an execution of
\* the job id j.
WrittenByJob(location, j) ==
  /\ Num(location) \in ArtifactKeys
  /\ bucket[Num(location)] # None
  /\ req[Num(bucket[Num(location)])].job_id = j

\* C18: the two artifact keys are determined by the job id, the keys of two
\* different job ids are different, every object in the bucket is at a key
\* of the job id that wrote it, and the artifacts a result points to were
\* last written by an execution of the result's own job id.
C18_KeysByJobId ==
  /\ \A j1, j2 \in JobIds : j1 # j2 => KeysOf(j1) \cap KeysOf(j2) = {}
  /\ \A k \in ArtifactKeys :
       bucket[k] # None => k \in KeysOf(req[Num(bucket[k])].job_id)
  /\ \A r \in DOMAIN req :
       Returned(r) =>
         /\ Response(r).transcript_url # None =>
              /\ Response(r).transcript_url = Some(TranscriptKey(req[r].job_id))
              /\ WrittenByJob(Response(r).transcript_url, req[r].job_id)
         /\ Response(r).timestamps_url # None =>
              /\ Response(r).timestamps_url = Some(TimestampsKey(req[r].job_id))
              /\ WrittenByJob(Response(r).timestamps_url, req[r].job_id)

C18_Witness ==
  \E r1, r2 \in DOMAIN req :
    /\ req[r1].job_id # req[r2].job_id
    /\ req[r1].pc = "done" /\ req[r2].pc = "done"
    /\ Returned(r1) /\ Response(r1).timestamps_url # None
    /\ Returned(r2) /\ Response(r2).timestamps_url # None
    /\ bucket[TranscriptKey(req[r1].job_id)] = Some(r1)
    /\ bucket[TranscriptKey(req[r2].job_id)] = Some(r2)


\* C19: GET /health answers 200 exactly when the model cache holds at least
\* one loaded model: not before the first load has succeeded, not after the
\* load at start-up has failed, and not after the caches were cleared; the
\* alignment models and the diarization pipeline do not count.
C19_Readiness ==
  /\ health_check \in {200, 503}
  /\ health_check = 200 <=> Cardinality({k \in WhisperKeys : models[k] # None}) >= 1
  /\ svc = "created" => health_check = 503
  /\ svc = "crashed" => health_check = 503
  /\ svc = "stopped" => health_check = 503
  /\ svc = "running" => health_check = 200

C19_Witness ==
  /\ svc = "stopped"
  /\ health_check = 503
  /\ \E r \in DOMAIN req :
       req[r].model_handle = Some(Handle(WhisperKey("small", "float16"), 1))


\* The order of the steps of one job.
StepOrder ==
  << "fetch", "load_whisper", "recognize", "load_align", "align",
     "load_diarization", "diarize", "assign", "extract", "aggregate",
     "persist_transcript", "persist_timings", "cleanup" >>

StepNames == {StepOrder[i] : i \in 1..Len(StepOrder)}

StepRank == [name \in StepNames |-> CHOOSE i \in 1..Len(StepOrder) : StepOrder[i] = name]

RankOf(name) == StepRank[name]

Requires(r, stage, earlier) == Ran(r, stage) => Ran(r, earlier)

StepsRun(r) == {req[r].steps[i] : i \in 1..Len(req[r].steps)}

\* C20: the steps a job has run are in the order fetch, model acquisition,
\* recognize, align, diarize, aggregate, persist, cleanup, each at most
\* once and none without the one it depends on; the synchronous answer and
\* the callback come only after the pipeline has returned its result and
\* removed its temporary file, whatever the other jobs do meanwhile.
C20_StepOrder ==
  \A r \in DOMAIN req :
   LET ran == StepsRun(r) IN
    /\ \A i \in 1..Len(req[r].steps) : req[r].steps[i] \in StepNames
    /\ \A i \in 1..(Len(req[r].steps) - 1) :
         RankOf(req[r].steps[i]) < RankOf(req[r].steps[i + 1])
    /\ ("load_whisper" \in ran => "fetch" \in ran)
    /\ ("recognize" \in ran => "load_whisper" \in ran)
    /\ ("load_align" \in ran => "recognize" \in ran)
    /\ ("align" \in ran => "load_align" \in ran)
    /\ ("load_diarization" \in ran => "recognize" \in ran)
    /\ ("diarize" \in ran => "load_diarization" \in ran)
    /\ ("assign" \in ran => "diarize" \in ran)
    /\ ("aggregate" \in ran => "recognize" \in ran)
    /\ ("persist_transcript" \in ran => "aggregate" \in ran)
    /\ ("cleanup" \in ran => "fetch" \in ran)
    /\ "aggregate" \in ran => "persist_transcript" \in ran /\ "cleanup" \in ran
    /\ ( \/ SynchronousAnswered(r)
         \/ req[r].pc \in {"callback_build", "callback_post"}
         \/ req[r].posts # <<>> ) =>
         /\ Returned(r)
         /\ req[r].local_audio_path => "cleanup" \in ran /\ r \notin temp_files

C20_Witness ==
  \E r1, r2 \in DOMAIN req :
    /\ req[r1].steps = StepOrder
    /\ SynchronousAnswered(r1)
    /\ r1 # r2 /\ InProgress(r2) /\ Ran(r2, "recognize")


Terminal(r) == req[r].status \in {"COMPLETED", "FAILED"}

DeliveryEnded(r) ==
  /\ req[r].delivery \in {"delivered", "exhausted", "aborted"}
  /\ Len(req[r].posts) <= max_retries

FatalFailure(r) ==
  req[r].error \in {Some("download"), Some("s3_url"), Some("load_model"), Some("transcribe")}

\* The loader of the alignment model or of the diarization pipeline was
\* called and returned nothing.
AlignModelUnavailable(r) ==
  /\ Ran(r, "load_align") /\ req[r].align_handle = None
  /\ req[r].pc \notin {"load_align", "construct_align"}

DiarizationUnavailable(r) ==
  /\ Ran(r, "load_diarization") /\ req[r].diar_handle = None
  /\ req[r].pc \notin {"load_diarization", "construct_diarization"}

\* C22: a job ends FAILED exactly when the download, the load of the
\* recognition model or the recognition raised, and COMPLETED otherwise:
\* whatever failed among the alignment model, the alignment, the
\* diarization pipeline, the diarization and the uploads.
C22_FailedIffFatal ==
  \A r \in DOMAIN req :
    /\ req[r].error # None => FatalFailure(r)
    /\ Returned(r) =>
         /\ req[r].status = Response(r).status
         /\ Response(r).status \in {"COMPLETED", "FAILED"}
         /\ Response(r).status = "FAILED" <=> FatalFailure(r)
         /\ ( \/ AlignModelUnavailable(r) \/ DiarizationUnavailable(r)
              \/ req[r].caught # {} ) => Response(r).status = "COMPLETED"

C22_Witness ==
  \E r \in DOMAIN req :
    /\ req[r].pc = "done"
    /\ AlignModelUnavailable(r)
    /\ "diarize" \in req[r].caught
    /\ "upload_text" \in req[r].caught
    /\ Response(r).status = "COMPLETED"


\* The speaker labels the segments carry, and the segments of one label.
LabelsOf(segments) ==
  {segments[i].speaker : i \in {n \in 1..Len(segments) : "speaker" \in DOMAIN segments[n]}}

LabelledWith(segments, label) ==
  SelectSeq(segments, LAMBDA seg : "speaker" \in DOMAIN seg /\ seg.speaker = label)

RECURSIVE SpeechTime(_)
SpeechTime(segments) ==
  IF segments = <<>> THEN 0
  ELSE Num(Head(segments).end) - Num(Head(segments).start) + SpeechTime(Tail(segments))

SummariesOf(r) == IF Response(r).speakers = None THEN <<>> ELSE Num(Response(r).speakers)

\* C23: a result has one speaker summary for each speaker label its
\* segments carry and no other; the summary counts the segments of its label
\* and adds up their end - start, which is not negative.
C23_SpeakerSummaries ==
  \A r \in DOMAIN req :
    Completed(r) =>
      LET segments == Num(Response(r).segments)
          summaries == SummariesOf(r)
      IN /\ {summaries[i].id : i \in 1..Len(summaries)} = LabelsOf(segments)
         /\ Len(summaries) = Cardinality(LabelsOf(segments))
         /\ \A i \in 1..Len(summaries) :
              /\ summaries[i].segments_count =
                   Len(LabelledWith(segments, summaries[i].id))
              /\ summaries[i].total_speech_time =
                   SpeechTime(LabelledWith(segments, summaries[i].id))
              /\ summaries[i].total_speech_time >= 0


\* C24: the pause after the first failed attempt is 1 and each further
\* pause is twice the one before, so the pauses never decrease; a pause
\* follows only an attempt that failed, and never more than max_retries
\* attempts are made.
C24_Backoff ==
  \A r \in DOMAIN req :
    LET delays == req[r].delays
        posts == req[r].posts
    IN /\ Len(posts) <= max_retries
       /\ Len(delays) <= Len(posts)
       /\ \A k \in 1..Len(delays) :
            /\ posts[k] = "request_exception"
            /\ k = 1 => delays[k] = 1
            /\ k > 1 => delays[k] = 2 * delays[k - 1] /\ delays[k] >= delays[k - 1]

C24_Witness ==
  \E r \in DOMAIN req : req[r].delays = <<1, 2, 4>> /\ Len(req[r].posts) = 4


\* C25: a request whose transcription raised is answered with HTTP 500.
C25_Http500 ==
  \A r \in DOMAIN req :
    (FatalFailure(r) /\ req[r].pc = "done") =>
      req[r].http # None /\ Num(req[r].http).code = 500


\* Two executions met the same outcome at every stage: the same failure or
\* none, the same exceptions caught, the same models obtained or not, and
\* the same outputs of recognition and of speaker assignment.
SameOutcomes(r1, r2) ==
  /\ req[r1].error = req[r2].error
  /\ req[r1].caught = req[r2].caught
  /\ (req[r1].model_handle = None) <=> (req[r2].model_handle = None)
  /\ (req[r1].align_handle = None) <=> (req[r2].align_handle = None)
  /\ (req[r1].diar_handle = None) <=> (req[r2].diar_handle = None)
  /\ req[r1].result = req[r2].result
  /\ req[r1].diarized_result = req[r2].diarized_result

SameRequest(r1, r2) ==
  /\ req[r1].job_id = req[r2].job_id
  /\ req[r1].model = req[r2].model
  /\ req[r1].compute_type = req[r2].compute_type
  /\ req[r1].language = req[r2].language
  /\ req[r1].diarize = req[r2].diarize

\* C26: a synchronous and an asynchronous execution of the same request
\* that met the same stage outcomes ran the same steps in the same order and
\* ended with the same result (status, transcript text, language,
\* confidence, and every other field); the synchronous one was answered with
\* it, the asynchronous one was answered PROCESSING and handed it to the
\* callback.
C26_ModesAgree ==
  \A r1, r2 \in DOMAIN req :
    ( /\ req[r1].synchronous /\ Returned(r1)
      /\ ~req[r2].synchronous /\ Returned(r2)
      /\ SameRequest(r1, r2) /\ SameOutcomes(r1, r2) ) =>
      /\ req[r1].steps = req[r2].steps
      /\ req[r1].status = req[r2].status
      /\ Response(r1) = Response(r2)
      /\ Num(req[r1].http).status = Response(r1).status
      /\ Num(req[r2].http).status = "PROCESSING"
      /\ req[r1].posts = <<>> /\ req[r1].delivery = "none"
      /\ req[r2].pc = "done" => req[r2].delivery # "none"

C26_Witness ==
  \E r1, r2 \in DOMAIN req :
    /\ req[r1].synchronous /\ ~req[r2].synchronous
    /\ SameRequest(r1, r2) /\ SameOutcomes(r1, r2)
    /\ req[r1].pc = "done" /\ req[r2].pc = "done"
    /\ Completed(r2) /\ req[r2].delivery = "delivered"
    /\ "align" \in req[r2].caught
    /\ Response(r2).confidence # None


Recognized(r) == req[r].result # None

AlignmentAttempted(r) == Ran(r, "load_align") \/ req[r].pc = "load_align"

DiarizationAttempted(r) == Ran(r, "load_diarization") \/ req[r].pc = "load_diarization"

PastAlignment(r) == Recognized(r) /\ req[r].pc \notin {"load_align", "construct_align", "align"}

\* C27: after recognition, the language used is the one recognition
\* reports, or the requested one when it reports none; the alignment block
\* is entered exactly when that language is non-empty and not "auto", and
\* the diarization block exactly when the request's diarize flag is set.  A
\* block that is not entered acquires no model and leaves the segments as
\* they were.
C27_StagesAttempted ==
  \A r \in DOMAIN req :
    /\ ~Recognized(r) => ~AlignmentAttempted(r) /\ ~DiarizationAttempted(r)
    /\ Recognized(r) =>
         /\ req[r].used_language =
              (IF "language" \in DOMAIN Num(req[r].result)
               THEN Some(Num(req[r].result).language) ELSE Some(req[r].language))
         /\ AlignmentAttempted(r) <=>
              (Num(req[r].used_language) # "" /\ Num(req[r].used_language) # "auto")
         /\ ~AlignmentAttempted(r) =>
              /\ req[r].align_handle = None /\ ~Ran(r, "align")
              /\ req[r].aligned_result = req[r].result
    /\ PastAlignment(r) => (DiarizationAttempted(r) <=> req[r].diarize)
    /\ ~req[r].diarize =>
         /\ ~DiarizationAttempted(r)
         /\ req[r].diar_handle = None /\ ~Ran(r, "diarize") /\ ~Ran(r, "assign")
         /\ req[r].diarized_result = None /\ req[r].speakers = None
         /\ Completed(r) =>
              Response(r).segments = Some(GetSegments(Num(req[r].aligned_result)))

C27_Witness ==
  \E r \in DOMAIN req :
    /\ Completed(r)
    /\ req[r].language = ""
    /\ ~AlignmentAttempted(r)
    /\ req[r].diarize /\ Ran(r, "assign")


\* C28: every POST of a job's callback goes to
\* {callback_url}/{job_id}/callback of that job and carries that job's id
\* and the status of its result, COMPLETED or FAILED; none is made before
\* the job has its result.
C28_CallbackPayload ==
  \A r \in DOMAIN req :
    /\ Len(req[r].posted) = Len(req[r].posts)
    /\ req[r].posted # <<>> => Returned(r) /\ Terminal(r) /\ req[r].callback_url
    /\ \A i \in 1..Len(req[r].posted) :
         /\ req[r].posted[i].json.job_id = req[r].job_id
         /\ req[r].posted[i].json.status \in {"COMPLETED", "FAILED"}
         /\ req[r].posted[i].json.status = Response(r).status
         /\ req[r].posted[i].json.status = req[r].status
         /\ req[r].posted[i].url =
              CallbackBase \o <<"/">> \o JobIdStr(req[r].job_id)
              \o <<"/", "c", "a", "l", "l", "b", "a", "c", "k">>

C28_Witness ==
  \E r \in DOMAIN req :
    /\ Len(req[r].posted) = 2
    /\ req[r].posted[2].json.status = "FAILED"
    /\ req[r].posts = <<"request_exception", "ok">>


\* C29: within one delivery the POST that succeeds is the last one made,
\* and a pause is made only between two attempts: fewer pauses than POSTs
\* once the delivery has ended, and never one after attempt max_retries.
C29_StopsAfterSuccess ==
  \A r \in DOMAIN req :
    /\ \A i \in 1..Len(req[r].posts) :
         req[r].posts[i] = "ok" =>
           /\ i = Len(req[r].posts)
           /\ req[r].pc = "done" /\ req[r].delivery = "delivered"
    /\ Len(req[r].delays) <= max_retries - 1
    /\ (req[r].pc = "done" /\ req[r].posts # <<>>) =>
         Len(req[r].delays) = Len(req[r].posts) - 1
    /\ req[r].pc = "callback_post" => Len(req[r].delays) = Len(req[r].posts)

C29_Witness ==
  \E r \in DOMAIN req :
    /\ max_retries = 2
    /\ req[r].pc = "done"
    /\ req[r].posts = <<"request_exception", "request_exception">>
    /\ req[r].delays = <<1>>


\* C30: _send_callback is called at most once for a job, exactly once when
\* the job is asynchronous with a callback URL and has its result; every POST
\* of the delivery carries the one payload built from that result, so the
\* job is never reported with two different statuses, and a delivery that
\* failed is not started again.
C30_OneDelivery ==
  \A r \in DOMAIN req :
    /\ req[r].callbacks <= 1
    /\ req[r].callbacks = 1 <=>
         (Returned(r) /\ ~req[r].synchronous /\ req[r].callback_url)
    /\ (req[r].callback_data # None \/ req[r].delivery # "none") => req[r].callbacks = 1
    /\ req[r].callback_data # None =>
         req[r].callback_data = Some(CallbackData(req[r].job_id, Response(r)))
    /\ \A i, j \in 1..Len(req[r].posted) :
         /\ req[r].posted[i] = req[r].posted[j]
         /\ Some(req[r].posted[i].json) = req[r].callback_data
    /\ DeliveryFailed(r) => req[r].callbacks = 1

C30_Witness ==
  \E r \in DOMAIN req :
    /\ req[r].callbacks = 1
    /\ req[r].pc = "done"
    /\ req[r].delivery = "aborted"
    /\ req[r].status = "COMPLETED"
    /\ Len(req[r].posted) = 2


\* ---------------------------------------------------------------- C31

PersistStepNames == {"persist_transcript", "persist_timings"}

NoArtifactFields(result) ==
  /\ result.transcript_text = None
  /\ result.segments = None
  /\ result.word_segments = None
  /\ result.transcript_url = None
  /\ result.timestamps_url = None

NoArtifactPayload(payload) ==
  /\ payload.status = "FAILED"
  /\ payload.transcript_text = None
  /\ payload.timestamps_json = None

\* C31: a job that ended FAILED made no upload: no key of the bucket was
\* written by it and neither upload is among its steps; its response has no
\* transcript text, no segments and no artifact URL, and the callback payload
\* built and posted for it has no transcript text and no timestamps bundle.
C31_FailedWritesNothing ==
  \A r \in DOMAIN req :
    req[r].status = "FAILED" =>
      /\ \A k \in ArtifactKeys : bucket[k] # Some(r)
      /\ \A i \in 1..Len(req[r].steps) : req[r].steps[i] \notin PersistStepNames
      /\ Returned(r) /\ NoArtifactFields(Response(r))
      /\ req[r].callback_data # None => NoArtifactPayload(Num(req[r].callback_data))
      /\ \A i \in 1..Len(req[r].posted) : NoArtifactPayload(req[r].posted[i].json)

C31_Witness ==
  \E r \in DOMAIN req :
    /\ req[r].status = "FAILED"
    /\ req[r].error = Some("transcribe")
    /\ req[r].pc = "done"
    /\ req[r].delivery = "delivered"
    /\ Len(req[r].posted) = 1


\* ---------------------------------------------------------------- C32

AsyncNoCallback(r) ==
  req[r].pc # "new" /\ ~req[r].synchronous /\ ~req[r].callback_url

NoDelivery(r) ==
  /\ req[r].callbacks = 0
  /\ req[r].callback_data = None
  /\ req[r].posts = <<>>
  /\ req[r].posted = <<>>
  /\ req[r].delays = <<>>
  /\ req[r].delivery = "none"

HasStep(r, name) == \E i \in 1..Len(req[r].steps) : req[r].steps[i] = name

\* The uploads of a completed job were made: the transcript upload was
\* called, and each location of the result is a key the job wrote.
Persisted(r) ==
  /\ HasStep(r, "persist_transcript")
  /\ Response(r).transcript_url # None =>
       bucket[Num(Response(r).transcript_url)] = Some(r)
  /\ Response(r).timestamps_url # None =>
       /\ HasStep(r, "persist_timings")
       /\ bucket[Num(Response(r).timestamps_url)] = Some(r)
  /\ "upload_text" \notin req[r].caught => Response(r).transcript_url # None
  /\ req[r].caught \cap {"upload_text", "upload_json"} = {} =>
       Response(r).timestamps_url # None

\* C32: an asynchronous job without a callback URL is acknowledged as
\* PROCESSING, eventually is COMPLETED or FAILED with its task finished, makes
\* its uploads when it is COMPLETED, and at no time calls _send_callback or
\* makes a POST.
C32_NoCallbackEndpoint ==
  \A r \in 1..NumRequests :
    /\ [](AsyncNoCallback(r) =>
           /\ NoDelivery(r)
           /\ req[r].http = Some([code |-> 200, job_id |-> req[r].job_id,
                                  status |-> "PROCESSING"])
           /\ req[r].status = "COMPLETED" => Persisted(r)
           /\ Terminal(r) <=> req[r].pc = "done")
    /\ AsyncNoCallback(r) ~> (Terminal(r) /\ req[r].pc = "done" /\ NoDelivery(r))

C32_Witness ==
  \E r \in DOMAIN req :
    /\ AsyncNoCallback(r)
    /\ req[r].pc = "done"
    /\ req[r].status = "COMPLETED"
    /\ NoDelivery(r)
    /\ bucket[TranscriptKey(req[r].job_id)] = Some(r)
    /\ bucket[TimestampsKey(req[r].job_id)] = Some(r)

====
